---- MODULE Spec2Model ----
(***************************************************************************)
(* A model of dalegaard/sim_telemetry: the telemetry_facade crate (the     *)
(* process-wide RecorderCell and the metric! call site) and the telemetry  *)
(* crate (TelemetryRecorder, its command channel and the Worker thread).   *)
(***************************************************************************)
EXTENDS Integers, Sequences, FiniteSets, TLC

(***************************************************************************)
(* Bounds of the model.                                                    *)
(***************************************************************************)
\* The pipelines a process may construct (TelemetryRecorder::new is called at
\* most once per pipeline); pipelines 1..NumPipelines.
NumPipelines == 2
\* The pipelines the application constructs in Spec and FairSpec ...
MaxNew == 1
\* ... and the metric! invocations it makes in SpecTwo, which constructs all.
MaxTwoCalls == 1
\* Callers of RecorderCell::set in SpecCell; the pipelines are among them.
NumInstallers == 2
\* Application threads executing metric! call sites.
NumThreads == 2
\* Distinct metric! call sites (each owns one static ID).
NumSites == 2
\* metric! invocations the threads perform, all together, in Spec ...
MaxCalls == 3
\* ... and in FairSpec.
MaxLiveCalls == 2
\* timestamp_secs_f64 calls made through each handle.
MaxTimestamps == 1
\* RecorderCell::set calls each installer performs in SpecCell.
MaxSetCalls == 2

Pipelines == 1..NumPipelines
Installers == 1..NumInstallers
Threads == 1..NumThreads
Sites == 1..NumSites

VARIABLES
    \* RecorderCell (recorder.rs 35-38)
    state,        \* RecorderCell.state : AtomicUsize
    recorder,     \* RecorderCell.recorder : UnsafeCell<Option<&'static dyn Recorder>>
    \* callers of RecorderCell::set, one per installer
    setPc,        \* position inside set
    setArg,       \* the recorder passed to set
    setCalls,     \* set calls started so far
    setTrue,      \* history: recorders passed by the set calls that returned true
    setFalse,     \* history: number of set calls that returned false
    \* callers of RecorderCell::get, one per thread
    getPc,        \* position inside get
    getSaw,       \* the state loaded by the last get
    getRet,       \* value returned by the last get
    \* TelemetryRecorder (telemetry/src/lib.rs), one per pipeline
    owner,        \* position of the thread that constructs, uses and drops the handle
    tsCount,      \* timestamp_secs_f64 calls made so far
    start_chan,   \* the bounded(1) channel start_tx/start_rx of new
    result,       \* what the Worker thread returned to its JoinHandle
    \* the command channel cmd_tx/cmd_rx, one per pipeline
    queue,        \* commands sent and not yet received
    rxAlive,      \* the Receiver cmd_rx has not been dropped
    sentLog,      \* history: every command the channel accepted, in order
    sends,        \* history: commands each producer has sent or tried to send
    \* Worker, one per pipeline
    worker,       \* position of the Worker thread
    metrics,      \* Worker.metrics : Vec<Metric>
    writer,       \* Worker.writer : the fstapi Writer (variables, records, flushed)
    applied,      \* history: commands the Worker received, with their outcome
    \* metric! call sites and the threads executing them
    ID,           \* the static OnceLock<usize> of each call site
    regSent,      \* history: allocate calls made for each call site
    budget,       \* metric! invocations the application has yet to begin
    skips,        \* history: executions of each call site that found no recorder
    pc,           \* position of each thread inside metric!
    calls,        \* metric! invocations each thread has completed
    site,         \* the call site the thread is executing
    reply         \* the bounded(1) reply channel of the thread's allocate call

cellVars == <<state, recorder, setPc, setArg, setCalls, setTrue, setFalse, getPc, getSaw, getRet>>

handleVars == <<owner, tsCount, start_chan, result>>
chanVars == <<queue, rxAlive, sentLog, sends>>
workerVars == <<worker, metrics, writer, applied>>
siteVars == <<ID, regSent, budget, skips, pc, calls, site, reply>>
pipeVars == <<handleVars, chanVars, workerVars, siteVars>>

vars == <<cellVars, pipeVars>>

(***************************************************************************)
(* RecorderCell (telemetry_facade/src/recorder.rs)                         *)
(***************************************************************************)
\* Option::None in the slot, and the value of a slot caught in the middle of
\* the non-atomic write of line 61-63.
None == [tx |-> 0, n |-> 0]
Torn == [tx |-> -1, n |-> 0]

\* A leaked recorder: TelemetryRecorderImpl holding a Sender of pipeline tx;
\* n tells the boxes leaked by successive calls of one installer apart.
Leaked(tx, n) == [tx |-> tx, n |-> n]

\* The three values of RecorderCell.state.
Uninitialized == 0
Installing == 1
Installed == 2

\* compare_exchange(0, 1) of line 55-58: TRUE iff the exchange succeeds.
CasFromNotInstalled(cur) == cur # Installed
CasAlwaysSucceeds(cur) == TRUE
compare_exchange_ok(cur) == cur = Uninitialized

\* The state get must load to go on to read the slot (line 73).
GetReadsUnlessUninitialized(cur) == cur # Uninitialized
get_may_read(cur) == cur = Installed

CellInit ==
    /\ state = Uninitialized
    /\ recorder = None
    /\ setPc = [i \in Installers |-> "idle"]
    /\ setArg = [i \in Installers |-> None]
    /\ setCalls = [i \in Installers |-> 0]
    /\ setTrue = <<>>
    /\ setFalse = 0
    /\ getPc = [t \in Threads |-> "idle"]
    /\ getSaw = [t \in Threads |-> Uninitialized]
    /\ getRet = [t \in Threads |-> None]

\* set, line 55-59 and 67-69: the compare-exchange.  When it succeeds the
\* caller goes on to write the slot; when it fails set returns false and the
\* recorder passed in is dropped.
SetCas(i) ==
    /\ setPc[i] = "call"
    /\ IF compare_exchange_ok(state)
         THEN /\ state' = Installing
              /\ setPc' = [setPc EXCEPT ![i] = "won"]
              /\ UNCHANGED setFalse
         ELSE /\ setPc' = [setPc EXCEPT ![i] = "ret"]
              /\ setFalse' = setFalse + 1
              /\ UNCHANGED state
    /\ UNCHANGED <<recorder, setArg, setCalls, setTrue, getPc, getSaw, getRet>>
    /\ UNCHANGED pipeVars

\* set, line 60-64: the plain (non-atomic) write of the slot begins ...
SetWriteBegin(i) ==
    /\ setPc[i] = "won"
    /\ recorder' = Torn
    /\ setPc' = [setPc EXCEPT ![i] = "writing"]
    /\ UNCHANGED <<state, setArg, setCalls, setTrue, setFalse, getPc, getSaw, getRet>>
    /\ UNCHANGED pipeVars

\* ... and completes.
SetWriteEnd(i) ==
    /\ setPc[i] = "writing"
    /\ recorder' = setArg[i]
    /\ setPc' = [setPc EXCEPT ![i] = "written"]
    /\ UNCHANGED <<state, setArg, setCalls, setTrue, setFalse, getPc, getSaw, getRet>>
    /\ UNCHANGED pipeVars

\* set, line 65-66: the release store of 2; set returns true.
SetStore(i) ==
    /\ setPc[i] = "written"
    /\ state' = Installed
    /\ setPc' = [setPc EXCEPT ![i] = "ret"]
    /\ setTrue' = Append(setTrue, setArg[i])
    /\ UNCHANGED <<recorder, setArg, setCalls, setFalse, getPc, getSaw, getRet>>
    /\ UNCHANGED pipeVars

\* get, line 73-74: the acquire load of the state.
GetLoad(t) ==
    /\ getPc[t] = "call"
    /\ getSaw' = [getSaw EXCEPT ![t] = state]
    /\ IF get_may_read(state)
         THEN /\ getPc' = [getPc EXCEPT ![t] = "read"]
              /\ UNCHANGED getRet
         ELSE /\ getPc' = [getPc EXCEPT ![t] = "ret"]
              /\ getRet' = [getRet EXCEPT ![t] = None]
    /\ UNCHANGED <<state, recorder, setPc, setArg, setCalls, setTrue, setFalse>>
    /\ UNCHANGED pipeVars

\* get, line 76: the plain read of the slot.
GetRead(t) ==
    /\ getPc[t] = "read"
    /\ getRet' = [getRet EXCEPT ![t] = recorder]
    /\ getPc' = [getPc EXCEPT ![t] = "ret"]
    /\ UNCHANGED <<state, recorder, setPc, setArg, setCalls, setTrue, setFalse, getSaw>>
    /\ UNCHANGED pipeVars

(***************************************************************************)
(* The telemetry crate (telemetry/src/lib.rs)                              *)
(***************************************************************************)
\* MetricId::MAX (usize::MAX), the sentinel of line 23; only ever compared
\* with metrics.len(), so the largest integer TLC represents stands for it.
MetricId_MAX == 2147483647

MetricKind ==
    {"Int8", "Int16", "Int32", "Int64", "Uint8", "Uint16", "Uint32", "Uint64",
     "Float32", "Float64"}

\* The (name, unit, kind) triple fixed at each metric! call site.  The macro
\* pastes record_$type, so the sites that expand to an existing method are
\* the f32 and f64 ones.
SiteKind(s) == IF s % 2 = 1 THEN "Float64" ELSE "Float32"
SiteName(s) == s
SiteUnit(s) == "V"

\* The value expression of a call site: the k-th invocation by a thread
\* records the float k.
SiteValue(k) == k

\* Producers of commands: the application threads, and the owner of each handle.
HandleOwner(p) == NumThreads + p
Producers == 1..(NumThreads + NumPipelines)

\* enum Command (line 49-62).  tag is history: the producer, the number of
\* the command among those the producer sent, and the call site it was sent
\* from (0 when it was not sent from a metric! call site).
Register(name, kind, unit, rep, tag) ==
    [type |-> "Register", name |-> name, kind |-> kind, unit |-> unit, reply |-> rep,
     tag |-> tag]
Timestamp(ts, tag) == [type |-> "Timestamp", ts |-> ts, tag |-> tag]
Update(metric, value, tag) ==
    [type |-> "Update", metric |-> metric, value |-> value, tag |-> tag]
Exit(tag) == [type |-> "Exit", tag |-> tag]

\* enum Value (line 65-69).
Float64(v) == [tag |-> "Float64", v |-> v]

\* record_f32 (recorder.rs 29-31) and record_f64 (lib.rs 40-45): the value
\* crosses the channel as Value::Float64.
record_value(kind, v) == Float64(v)

Int64(v) == [tag |-> "Int64", v |-> v]
Uint64(v) == [tag |-> "Uint64", v |-> v]

\* The two's complement little-endian bytes of an integer, n bytes wide
\* (\div rounds down and % is never negative).
RECURSIVE to_le_bytes(_, _)
to_le_bytes(v, n) ==
    IF n = 0 THEN <<>> ELSE <<v % 256>> \o to_le_bytes(v \div 256, n - 1)

\* The integer a sequence of little-endian bytes denotes, read as unsigned
\* and as signed.
RECURSIVE from_le_bytes(_)
from_le_bytes(bytes) ==
    IF bytes = <<>> THEN 0 ELSE Head(bytes) + 256 * from_le_bytes(Tail(bytes))

RECURSIVE from_le_bytes_signed(_)
from_le_bytes_signed(bytes) ==
    IF Len(bytes) = 1
      THEN IF bytes[1] >= 128 THEN bytes[1] - 256 ELSE bytes[1]
      ELSE Head(bytes) + 256 * from_le_bytes_signed(Tail(bytes))

\* Widening an integer to n bytes: the sign bit is copied into the new bytes,
\* or they are zero.
sign_extend(bytes, n) ==
    bytes \o [k \in 1..(n - Len(bytes)) |-> IF bytes[Len(bytes)] >= 128 THEN 255 ELSE 0]
zero_extend(bytes, n) == bytes \o [k \in 1..(n - Len(bytes)) |-> 0]

\* The record_* methods of trait Recorder (recorder.rs 9-32), by suffix.
Methods == {"i8", "i16", "i32", "i64", "u8", "u16", "u32", "u64", "f32", "f64"}

\* The type of the value parameter of each integer method: its width in
\* bytes and whether it is signed.  record_i8 takes a u8 (recorder.rs 9).
ParamBytes(m) ==
    CASE m \in {"i8", "u8"} -> 1
      [] m \in {"i16", "u16"} -> 2
      [] m \in {"i32", "u32"} -> 4
      [] m \in {"i64", "u64"} -> 8
ParamSigned(m) == m \in {"i16", "i32", "i64"}

\* value.into() (recorder.rs 10-27): From for the integer types widens the
\* parameter to 64 bits, extending the sign of a signed parameter.
into_64(m, value) ==
    LET bytes == to_le_bytes(value, ParamBytes(m))
    IN  IF ParamSigned(m) THEN sign_extend(bytes, 8) ELSE zero_extend(bytes, 8)

\* The Value a record_* method sends: the narrow integer methods forward to
\* record_i64 or record_u64 (recorder.rs 9-27), record_f32 to record_f64
\* (recorder.rs 29-31), and those build the Value (lib.rs 26-45).
record(m, value) ==
    CASE m \in {"f32", "f64"} -> Float64(value)
      [] m = "i64" -> Int64(value)
      [] m = "u64" -> Uint64(value)
      [] m \in {"i8", "i16", "i32"} -> Int64(from_le_bytes_signed(into_64(m, value)))
      [] m \in {"u8", "u16", "u32"} -> Uint64(from_le_bytes(into_64(m, value)))

\* Worker::metric_type (line 194-208).
metric_type(kind) ==
    CASE kind \in {"Int8", "Uint8"} -> "SV_BYTE"
      [] kind \in {"Int16", "Uint16"} -> "SV_SHORTINT"
      [] kind \in {"Int32", "Uint32"} -> "SV_INT"
      [] kind \in {"Int64", "Uint64"} -> "SV_LONGINT"
      [] kind \in {"Float32", "Float64"} -> "VCD_REAL"

\* Worker::metric_size (line 210-223).
metric_size(kind) == IF kind \in {"Int8", "Uint8"} THEN 1 ELSE 8

RECURSIVE Pow2(_)
Pow2(e) == IF e = 0 THEN 1 ELSE 2 * Pow2(e - 1)

RECURSIVE Log2(_)
Log2(n) == IF n < 2 THEN 0 ELSE 1 + Log2(n \div 2)

\* f64::to_ne_bytes on a little-endian target, for the whole floats 0..31:
\* sign 0, biased exponent 1023 + e, and the fraction (v - 2^e) / 2^e, which
\* for these values lies within the top four fraction bits.
to_ne_bytes(v) ==
    IF v = 0 THEN <<0, 0, 0, 0, 0, 0, 0, 0>>
    ELSE LET e == Log2(v)
             top4 == ((v - Pow2(e)) * 16) \div Pow2(e)
             bexp == 1023 + e
         IN  <<0, 0, 0, 0, 0, 0, (bexp % 16) * 16 + top4, bexp \div 16>>

\* Worker::metric_value (line 225-230): the buffer and the length used.
metric_value(kind, value) ==
    IF kind \in {"Float64", "Float32"} /\ value.tag = "Float64"
      THEN [buf |-> to_ne_bytes(value.v), len |-> 8]
      ELSE [buf |-> <<0, 0, 0, 0, 0, 0, 0, 0>>, len |-> 8]

\* TelemetryRecorder::timestamp_secs_f64 (line 105-106): time * 1e9 as u64.
\* A time is given in half nanoseconds h (time = h / 2 ns); the cast
\* truncates toward zero and saturates, so a negative product becomes 0.
TimeInputs == {3}
SecsToTicksWrapping(h) == IF h < 0 THEN 2147483647 + (h \div 2) ELSE h \div 2
secs_to_ticks(h) == IF h < 0 THEN 0 ELSE h \div 2

\* The fstapi Writer as the Worker uses it: the variables created, the
\* time-change and value-change records emitted, and whether flush ran.
NewWriter == [vars |-> <<>>, log |-> <<>>, flushed |-> FALSE]
TimeChange(ts) == [rec |-> "time_change", ts |-> ts]
ValueChange(var, bytes) == [rec |-> "value_change", var |-> var, bytes |-> bytes]

\* A bounded(1) reply channel (line 16): no channel, sender alive and nothing
\* sent, an identifier sent, sender dropped with nothing sent.
NoReply == [st |-> "none", v |-> 0]
ReplyOpen == [st |-> "open", v |-> 0]
ReplySent(id) == [st |-> "sent", v |-> id]
ReplyClosed == [st |-> "closed", v |-> 0]

\* OnceLock<usize> (lib.rs 10).
OnceUninit == [st |-> "uninit", v |-> 0]
OnceRunning == [st |-> "running", v |-> 0]
OnceDone(id) == [st |-> "done", v |-> id]

\* The state before the application has called anything, when it is going
\* to construct the pipelines 1..n (the others are never used).
PipeStart(n) ==
    /\ owner = [p \in Pipelines |-> IF p <= n THEN "start" ELSE "unused"]
    /\ tsCount = [p \in Pipelines |-> 0]
    /\ start_chan = [p \in Pipelines |-> "empty"]
    /\ result = [p \in Pipelines |-> "none"]
    /\ queue = [p \in Pipelines |-> <<>>]
    /\ rxAlive = [p \in Pipelines |-> TRUE]
    /\ sentLog = [p \in Pipelines |-> <<>>]
    /\ sends = [x \in Producers |-> 0]
    /\ worker = [p \in Pipelines |-> "unspawned"]
    /\ metrics = [p \in Pipelines |-> <<>>]
    /\ writer = [p \in Pipelines |-> NewWriter]
    /\ applied = [p \in Pipelines |-> <<>>]
    /\ ID = [s \in Sites |-> OnceUninit]
    /\ regSent = [s \in Sites |-> 0]
    /\ skips = [s \in Sites |-> 0]
    /\ pc = [t \in Threads |-> "idle"]
    /\ calls = [t \in Threads |-> 0]
    /\ site = [t \in Threads |-> 1]
    /\ reply = [t \in Threads |-> NoReply]

PipeInit == PipeStart(MaxNew)

\* Sender::send on the unbounded command channel of pipeline p by producer x:
\* the command is appended unless the Receiver is gone, in which case send
\* returns an error the callers ignore (let _ =) and the command is dropped.
RECURSIVE CloseReplies(_, _)
CloseReplies(cmds, rep) ==
    IF cmds = <<>> THEN rep
    ELSE LET c == Head(cmds)
             r == IF c.type = "Register" THEN [rep EXCEPT ![c.reply] = ReplyClosed]
                  ELSE rep
         IN  CloseReplies(Tail(cmds), r)

send_ok(p) == rxAlive[p]

\* Positions of the commands of some type in a sequence of commands.
PositionsOf(cmds, type) == {k \in 1..Len(cmds) : cmds[k].type = type}

\* The channel is a FIFO queue: send appends at the back, recv takes the front.
EnqueueFront(q, cmd) == <<cmd>> \o q
Enqueue(q, cmd) == Append(q, cmd)

Send(p, x, cmd) ==
    /\ sends' = [sends EXCEPT ![x] = @ + 1]
    /\ IF send_ok(p)
         THEN /\ queue' = [queue EXCEPT ![p] = Enqueue(@, cmd)]
              /\ sentLog' = [sentLog EXCEPT ![p] = Append(@, cmd)]
         ELSE UNCHANGED <<queue, sentLog>>
    /\ UNCHANGED rxAlive

Tag(x, s) == [by |-> x, n |-> sends[x] + 1, site |-> s]

(***************************************************************************)
(* TelemetryRecorder: new, timestamp_secs_f64, drop                        *)
(***************************************************************************)
\* new, line 95-98: the channels are created and the Worker thread spawned.
New(p) ==
    /\ owner[p] = "start"
    /\ owner' = [owner EXCEPT ![p] = "wait_start"]
    /\ worker' = [worker EXCEPT ![p] = "new"]
    /\ UNCHANGED <<tsCount, start_chan, result, chanVars, metrics, writer, applied,
                   siteVars, cellVars>>

\* Worker::spawn, line 131-140, and Worker::new, line 143-150: the backend is
\* opened.  On success Ok is sent on start_result_tx and run begins; on
\* failure cmd_rx (moved into Worker::new) is dropped, Err is sent and the
\* thread returns Ok(()).
WorkerNew(p) ==
    /\ worker[p] = "new"
    /\ \E ok \in BOOLEAN :
         IF ok
           THEN /\ start_chan' = [start_chan EXCEPT ![p] = "ok"]
                /\ worker' = [worker EXCEPT ![p] = "run"]
                /\ UNCHANGED <<result, rxAlive>>
           ELSE /\ start_chan' = [start_chan EXCEPT ![p] = "err"]
                /\ worker' = [worker EXCEPT ![p] = "done"]
                /\ result' = [result EXCEPT ![p] = "Ok"]
                /\ rxAlive' = [rxAlive EXCEPT ![p] = FALSE]
    /\ UNCHANGED <<owner, tsCount, queue, sentLog, sends, metrics, writer, applied,
                   siteVars, cellVars>>

\* new, line 99: start_rx.recv().unwrap()? lets new go on when the Worker
\* has sent Ok(()).
StartedWhateverSent(r) == r # "empty"
start_ok(r) == r = "ok"

\* new, line 99: start_rx.recv().unwrap()? returns the open error ...
NewFails(p) ==
    /\ owner[p] = "wait_start"
    /\ start_chan[p] = "err"
    /\ owner' = [owner EXCEPT ![p] = "failed"]
    /\ UNCHANGED <<tsCount, start_chan, result, chanVars, workerVars, siteVars, cellVars>>

\* ... or goes on to line 100, set_recorder(TelemetryRecorderImpl(cmd_tx.clone())).
NewInstalls(p) ==
    /\ owner[p] = "wait_start"
    /\ start_ok(start_chan[p])
    /\ owner' = [owner EXCEPT ![p] = "install"]
    /\ setPc' = [setPc EXCEPT ![p] = "call"]
    /\ setArg' = [setArg EXCEPT ![p] = Leaked(p, 1)]
    /\ setCalls' = [setCalls EXCEPT ![p] = @ + 1]
    /\ UNCHANGED <<state, recorder, setTrue, setFalse, getPc, getSaw, getRet>>
    /\ UNCHANGED <<tsCount, start_chan, result, chanVars, workerVars, siteVars>>

\* new, line 101: set_recorder has returned (its result is not looked at)
\* and the handle is returned.
NewReturns(p) ==
    /\ owner[p] = "install"
    /\ setPc[p] = "ret"
    /\ owner' = [owner EXCEPT ![p] = "live"]
    /\ UNCHANGED <<tsCount, start_chan, result, chanVars, workerVars, siteVars, cellVars>>

\* timestamp_secs_f64, line 104-107.
TimestampCall(p) ==
    /\ owner[p] = "live"
    /\ tsCount[p] < MaxTimestamps
    /\ \E time \in TimeInputs :
         Send(p, HandleOwner(p), Timestamp(secs_to_ticks(time), Tag(HandleOwner(p), 0)))
    /\ tsCount' = [tsCount EXCEPT ![p] = @ + 1]
    /\ UNCHANGED <<owner, start_chan, result, workerVars, siteVars, cellVars>>

\* drop, line 112: Exit is sent.
drop_command(tag) == Exit(tag)

DropSend(p) ==
    /\ owner[p] = "live"
    /\ Send(p, HandleOwner(p), drop_command(Tag(HandleOwner(p), 0)))
    /\ owner' = [owner EXCEPT ![p] = "join"]
    /\ UNCHANGED <<tsCount, start_chan, result, workerVars, siteVars, cellVars>>

\* drop, line 114: let _ = handle.join() discards the thread's result, and
\* drop returns (): where the owner stands afterwards, given that result.
drop_returns(joined) == "dropped"

\* drop, line 113-115: handle.join() returns once the Worker thread has finished.
DropJoin(p) ==
    /\ owner[p] = "join"
    /\ worker[p] = "done"
    /\ owner' = [owner EXCEPT ![p] = drop_returns(result[p])]
    /\ UNCHANGED <<tsCount, start_chan, result, chanVars, workerVars, siteVars, cellVars>>

(***************************************************************************)
(* Worker::run (line 152-192)                                              *)
(***************************************************************************)
\* line 154: cmd_rx.recv() takes the command at the front of the queue.  (A
\* Sender outlives every running Worker: the handle keeps cmd_tx until drop
\* has joined the thread, so recv never reports a disconnected channel.)
ReceivableAfterLoop(p) == worker[p] \in {"run", "ret"} /\ queue[p] # <<>>
Receivable(p) == worker[p] = "run" /\ queue[p] # <<>>
Received(p) == Head(queue[p])
Dequeued(p) == [queue EXCEPT ![p] = Tail(@)]
\* History of a received command: how it ended ("ok", "err" for a backend
\* error, "ignored") and the identifier replied (-1 when none was).
Outcome(cmd, how, id) == [cmd |-> cmd, how |-> how, id |-> id]

\* line 162: the identifier of the metric being registered.
NextIdOneBased(ms) == Len(ms) + 1
next_id(ms) == Len(ms)

\* A backend call returned an error: the ? operator returns it from run
\* (line 170, 176, 184), skipping the flush of line 189.
RunFails(p) ==
    /\ worker' = [worker EXCEPT ![p] = "ret"]
    /\ result' = [result EXCEPT ![p] = "Err"]
    /\ UNCHANGED <<metrics, writer>>

\* line 173: reply.send(id) goes to the reply channel the Register carries.
ReplyToFirstThread(msg) == 1
reply_target(msg) == msg.reply

\* line 156-174: Command::Register.
WorkerRegister(p) ==
    /\ Receivable(p)
    /\ Received(p).type = "Register"
    /\ queue' = Dequeued(p)
    /\ LET msg == Received(p)
           id == next_id(metrics[p])
       IN  \E ok \in BOOLEAN :
             IF ok
               THEN /\ writer' = [writer EXCEPT ![p].vars =
                          Append(@, [type |-> metric_type(msg.kind),
                                     size |-> metric_size(msg.kind),
                                     name |-> msg.name])]
                    /\ metrics' = [metrics EXCEPT ![p] =
                          Append(@, [var |-> Len(writer[p].vars) + 1, kind |-> msg.kind])]
                    /\ reply' = [reply EXCEPT ![reply_target(msg)] = ReplySent(id)]
                    /\ applied' = [applied EXCEPT ![p] = Append(@, Outcome(msg, "ok", id))]
                    /\ UNCHANGED <<worker, result>>
               ELSE /\ RunFails(p)
                    /\ reply' = [reply EXCEPT ![msg.reply] = ReplyClosed]
                    /\ applied' = [applied EXCEPT ![p] = Append(@, Outcome(msg, "err", -1))]
    /\ UNCHANGED <<owner, tsCount, start_chan, rxAlive, sentLog, sends,
                   ID, regSent, budget, skips, pc, calls, site, cellVars>>

\* line 175-177: Command::Timestamp.
WorkerTimestamp(p) ==
    /\ Receivable(p)
    /\ Received(p).type = "Timestamp"
    /\ queue' = Dequeued(p)
    /\ LET msg == Received(p)
       IN  \E ok \in BOOLEAN :
             IF ok
               THEN /\ writer' = [writer EXCEPT ![p].log = Append(@, TimeChange(msg.ts))]
                    /\ applied' = [applied EXCEPT ![p] = Append(@, Outcome(msg, "ok", -1))]
                    /\ UNCHANGED <<worker, result, metrics>>
               ELSE /\ RunFails(p)
                    /\ applied' = [applied EXCEPT ![p] = Append(@, Outcome(msg, "err", -1))]
    /\ UNCHANGED <<owner, tsCount, start_chan, rxAlive, sentLog, sends, siteVars, cellVars>>

\* line 179: self.metrics.get(metric) is Some.
InRangeButLast(ms, metric) == metric + 1 < Len(ms)
in_range(ms, metric) == metric < Len(ms)

\* line 178-185: Command::Update.
WorkerUpdate(p) ==
    /\ Receivable(p)
    /\ Received(p).type = "Update"
    /\ queue' = Dequeued(p)
    /\ LET msg == Received(p)
       IN  IF ~in_range(metrics[p], msg.metric)
             THEN /\ applied' = [applied EXCEPT ![p] = Append(@, Outcome(msg, "ignored", -1))]
                  /\ UNCHANGED <<worker, result, metrics, writer>>
             ELSE LET metric == metrics[p][msg.metric + 1]
                      enc == metric_value(metric.kind, msg.value)
                  IN  \E ok \in BOOLEAN :
                        IF ok
                          THEN /\ writer' = [writer EXCEPT ![p].log =
                                     Append(@, ValueChange(metric.var,
                                                           SubSeq(enc.buf, 1, enc.len)))]
                               /\ applied' = [applied EXCEPT ![p] =
                                     Append(@, Outcome(msg, "ok", -1))]
                               /\ UNCHANGED <<worker, result, metrics>>
                          ELSE /\ RunFails(p)
                               /\ applied' = [applied EXCEPT ![p] =
                                     Append(@, Outcome(msg, "err", -1))]
    /\ UNCHANGED <<owner, tsCount, start_chan, rxAlive, sentLog, sends, siteVars, cellVars>>

\* line 186: Command::Exit breaks out of the loop.
ExitContinues == FALSE
exit_breaks == TRUE

\* line 186-191: Exit, then the flush after the loop and Ok(()).
WorkerExit(p) ==
    /\ Receivable(p)
    /\ Received(p).type = "Exit"
    /\ queue' = Dequeued(p)
    /\ applied' = [applied EXCEPT ![p] = Append(@, Outcome(Received(p), "ok", -1))]
    /\ IF exit_breaks
         THEN /\ worker' = [worker EXCEPT ![p] = "ret"]
              /\ writer' = [writer EXCEPT ![p].flushed = TRUE]
              /\ result' = [result EXCEPT ![p] = "Ok"]
         ELSE UNCHANGED <<worker, writer, result>>
    /\ UNCHANGED <<owner, tsCount, start_chan, rxAlive, sentLog, sends, metrics,
                   siteVars, cellVars>>

\* What dropping the last Receiver does to the commands still queued: the
\* channel discards them, which drops the reply Senders they carry.
RepliesKept(cmds, rep) == rep
replies_after_disconnect(cmds, rep) == CloseReplies(cmds, rep)

\* Worker::spawn, line 136-139: run has returned; the closure ends, which
\* drops the Worker and with it cmd_rx, and the thread's result becomes
\* joinable.
WorkerFinish(p) ==
    /\ worker[p] = "ret"
    /\ worker' = [worker EXCEPT ![p] = "done"]
    /\ rxAlive' = [rxAlive EXCEPT ![p] = FALSE]
    /\ queue' = [queue EXCEPT ![p] = <<>>]
    /\ reply' = replies_after_disconnect(queue[p], reply)
    /\ UNCHANGED <<handleVars, sentLog, sends, metrics, writer, applied,
                   ID, regSent, budget, skips, pc, calls, site, cellVars>>

(***************************************************************************)
(* metric! (telemetry_facade/src/lib.rs 8-24) and TelemetryRecorderImpl    *)
(***************************************************************************)
\* The recorder the thread's RECORDER.get() returned, and its channel.
Got(t) == pc[t] = "get" /\ getPc[t] = "ret"
Chan(t) == getRet[t].tx

\* line 11: a thread reaches the call site s and calls RECORDER.get(); s = 0
\* is a caller that uses the Recorder obtained from RECORDER.get() directly.
MetricCall(t) ==
    /\ pc[t] = "idle"
    /\ budget > 0
    /\ budget' = budget - 1
    /\ \E s \in Sites \cup {0} : site' = [site EXCEPT ![t] = s]
    /\ pc' = [pc EXCEPT ![t] = "get"]
    /\ getPc' = [getPc EXCEPT ![t] = "call"]
    /\ UNCHANGED <<state, recorder, setPc, setArg, setCalls, setTrue, setFalse, getSaw,
                   getRet>>
    /\ UNCHANGED <<handleVars, chanVars, workerVars, ID, regSent, skips, calls, reply>>

\* The site's ID after an execution that found no recorder: line 11 guards
\* the whole body, get_or_init included.
SkipCachesSentinel(o) == OnceDone(MetricId_MAX)
id_after_skip(o) == o

\* line 11: get returned None, the if let does not match, nothing is done.
MetricSkip(t) ==
    /\ Got(t)
    /\ site[t] \in Sites
    /\ getRet[t] = None
    /\ ID' = [ID EXCEPT ![site[t]] = id_after_skip(@)]
    /\ skips' = [skips EXCEPT ![site[t]] = @ + 1]
    /\ pc' = [pc EXCEPT ![t] = "idle"]
    /\ calls' = [calls EXCEPT ![t] = @ + 1]
    /\ UNCHANGED <<handleVars, chanVars, workerVars, regSent, budget, site, reply, cellVars>>

\* OnceLock::get_or_init (line 12): the caller that finds the cell
\* uninitialized runs the closure; callers arriving while it runs wait.
OnceInitUnlessDone(o) == o.st # "done"
once_must_init(o) == o.st = "uninit"

\* line 12-18 and allocate, line 16-22: the thread becomes the initializer of
\* the site's ID, creates the reply channel and sends Register (when the send
\* fails the command comes back in the error and is dropped, reply_tx with it).
MetricAllocate(t) ==
    /\ Got(t)
    /\ site[t] \in Sites
    /\ getRet[t] # None
    /\ once_must_init(ID[site[t]])
    /\ ID' = [ID EXCEPT ![site[t]] = OnceRunning]
    /\ regSent' = [regSent EXCEPT ![site[t]] = @ + 1]
    /\ Send(Chan(t), t,
            Register(SiteName(site[t]), SiteKind(site[t]), SiteUnit(site[t]), t,
                     Tag(t, site[t])))
    /\ reply' = [reply EXCEPT ![t] = IF send_ok(Chan(t)) THEN ReplyOpen ELSE ReplyClosed]
    /\ pc' = [pc EXCEPT ![t] = "wait"]
    /\ UNCHANGED <<handleVars, workerVars, budget, skips, calls, site, cellVars>>

\* allocate, line 23: reply_rx.recv().unwrap_or(MetricId::MAX) on a reply
\* channel that holds an identifier or whose Sender is gone.
RecvUnwrapOrZero(r) == IF r.st = "sent" THEN r.v ELSE 0
recv_unwrap_or(r) == IF r.st = "sent" THEN r.v ELSE MetricId_MAX

\* allocate, line 23: the receive returns, and get_or_init stores the
\* identifier in the site's ID.
AllocateReturns(t) ==
    /\ pc[t] = "wait"
    /\ reply[t].st \in {"sent", "closed"}
    /\ ID' = [ID EXCEPT ![site[t]] = OnceDone(recv_unwrap_or(reply[t]))]
    /\ reply' = [reply EXCEPT ![t] = NoReply]
    /\ pc' = [pc EXCEPT ![t] = "record"]
    /\ UNCHANGED <<handleVars, chanVars, workerVars, regSent, budget, skips, calls, site,
                   cellVars>>

\* line 19-21 and record_f64, line 40-45: the identifier of the site is read
\* and Update is sent (by the initializer, by a caller that waited for it, or
\* by a later caller that finds the ID set).
MetricRecord(t) ==
    /\ \/ pc[t] = "record"
       \/ Got(t) /\ getRet[t] # None
    /\ site[t] \in Sites
    /\ ID[site[t]].st = "done"
    /\ Send(Chan(t), t,
            Update(ID[site[t]].v, record_value(SiteKind(site[t]), SiteValue(calls[t] + 1)),
                   Tag(t, site[t])))
    /\ pc' = [pc EXCEPT ![t] = "idle"]
    /\ calls' = [calls EXCEPT ![t] = @ + 1]
    /\ UNCHANGED <<handleVars, workerVars, ID, regSent, budget, skips, site, reply, cellVars>>

\* The identifier a direct caller of Recorder::record_f64 passes: out of
\* range until two metrics are registered, in range afterwards.
DirectIds == {1}

\* record_f64 (line 40-45) called on the recorder with an identifier that no
\* call site resolved; without a recorder the caller does nothing.
RecordDirect(t) ==
    /\ Got(t)
    /\ site[t] = 0
    /\ IF getRet[t] = None
         THEN UNCHANGED chanVars
         ELSE \E id \in DirectIds :
                Send(Chan(t), t, Update(id, Float64(SiteValue(calls[t] + 1)), Tag(t, 0)))
    /\ pc' = [pc EXCEPT ![t] = "idle"]
    /\ calls' = [calls EXCEPT ![t] = @ + 1]
    /\ UNCHANGED <<handleVars, workerVars, ID, regSent, budget, skips, site, reply, cellVars>>

(***************************************************************************)
(* Callers that hold the installed recorder and call the methods of trait  *)
(* Recorder themselves, with any kind, identifier and value.               *)
(***************************************************************************)
\* Calls of allocate, record_* and timestamp_secs_f64 the application makes
\* this way, all together.
MaxDirectCalls == 3

\* Arguments passed to the value parameter of each method: extreme values of
\* the parameter's type that fit the model's integers, and whole floats.
ValueInputs(m) ==
    CASE m \in {"i8", "u8"} -> {127, 255}
      [] m = "i16" -> {-1, 32767}
      [] m = "u16" -> {1, 65535}
      [] m \in {"i32", "i64"} -> {-2147483647, 2147483647}
      [] m \in {"u32", "u64"} -> {1, 2147483647}
      [] m \in {"f32", "f64"} -> {1, 3}

\* Identifiers passed: the first two a Worker assigns, and the sentinel.
IdInputs == {0, 1, MetricId_MAX}

\* The method a call site of each kind expands to (lib.rs 19-21).
MethodOf(kind) ==
    CASE kind = "Int8" -> "i8" [] kind = "Int16" -> "i16"
      [] kind = "Int32" -> "i32" [] kind = "Int64" -> "i64"
      [] kind = "Uint8" -> "u8" [] kind = "Uint16" -> "u16"
      [] kind = "Uint32" -> "u32" [] kind = "Uint64" -> "u64"
      [] kind = "Float32" -> "f32" [] kind = "Float64" -> "f64"

\* Kinds for which allocate was called on the channel of pipeline p.
AllocatedKinds(p) ==
    {sentLog[p][k].kind : k \in {j \in 1..Len(sentLog[p]) : sentLog[p][j].type = "Register"}}

\* Times passed to timestamp_secs_f64, in half nanoseconds.
DirectTimeInputs == {-2, 3}

\* The threads that make these calls.
DirectCallers == {1}

\* History of a direct record_* call: the method called and its argument.
CallTag(x, m, v) == [by |-> x, n |-> sends[x] + 1, site |-> 0, method |-> m, arg |-> v]
\* History of a timestamp_secs_f64 call: the time passed.
TimeTag(x, time) == [by |-> x, n |-> sends[x] + 1, site |-> 0, time |-> time]

\* The name passed to allocate: another one at each call.
DirectName(t) == sends[t] + 1

\* allocate, line 16-22, called with any kind.
AllocateDirect(t) ==
    /\ pc[t] = "idle"
    /\ getRet[t] # None
    /\ budget > 0
    /\ budget' = budget - 1
    /\ site' = [site EXCEPT ![t] = 0]
    /\ \E kind \in MetricKind :
          Send(Chan(t), t, Register(DirectName(t), kind, "V", t, Tag(t, 0)))
    /\ reply' = [reply EXCEPT ![t] = IF send_ok(Chan(t)) THEN ReplyOpen ELSE ReplyClosed]
    /\ pc' = [pc EXCEPT ![t] = "alloc"]
    /\ UNCHANGED <<handleVars, workerVars, ID, regSent, skips, calls, cellVars>>

\* allocate, line 23: the receive returns the identifier or the sentinel.
AllocateDirectReturns(t) ==
    /\ pc[t] = "alloc"
    /\ reply[t].st \in {"sent", "closed"}
    /\ reply' = [reply EXCEPT ![t] = NoReply]
    /\ pc' = [pc EXCEPT ![t] = "idle"]
    /\ calls' = [calls EXCEPT ![t] = @ + 1]
    /\ UNCHANGED <<handleVars, chanVars, workerVars, ID, regSent, budget, skips, site,
                   cellVars>>

\* record_<m>(id, value), recorder.rs 9-32 and lib.rs 26-45, with the method
\* of a kind that was allocated, any identifier and any value.
RecordAny(t) ==
    /\ pc[t] = "idle"
    /\ getRet[t] # None
    /\ budget > 0
    /\ budget' = budget - 1
    /\ site' = [site EXCEPT ![t] = 0]
    /\ \E kind \in AllocatedKinds(Chan(t)) :
          \E value \in ValueInputs(MethodOf(kind)) : \E id \in IdInputs :
             Send(Chan(t), t,
                  Update(id, record(MethodOf(kind), value),
                         CallTag(t, MethodOf(kind), value)))
    /\ calls' = [calls EXCEPT ![t] = @ + 1]
    /\ UNCHANGED <<handleVars, workerVars, ID, regSent, skips, pc, reply, cellVars>>

\* timestamp_secs_f64, line 104-107, called with any time.
TimestampAny(p) ==
    /\ owner[p] = "live"
    /\ budget > 0
    /\ budget' = budget - 1
    /\ \E time \in DirectTimeInputs :
          Send(p, HandleOwner(p),
               Timestamp(secs_to_ticks(time), TimeTag(HandleOwner(p), time)))
    /\ tsCount' = [tsCount EXCEPT ![p] = @ + 1]
    /\ UNCHANGED <<owner, start_chan, result, workerVars, ID, regSent, skips, pc, calls,
                   site, reply, cellVars>>

(***************************************************************************)
(* Spec: pipelines, workers and call sites together.                       *)
(***************************************************************************)
Next ==
    \/ \E p \in Pipelines :
         \/ New(p) \/ WorkerNew(p) \/ NewFails(p) \/ NewInstalls(p) \/ NewReturns(p)
         \/ SetCas(p) \/ SetWriteBegin(p) \/ SetWriteEnd(p) \/ SetStore(p)
         \/ TimestampCall(p) \/ DropSend(p) \/ DropJoin(p)
         \/ WorkerRegister(p) \/ WorkerTimestamp(p) \/ WorkerUpdate(p) \/ WorkerExit(p)
         \/ WorkerFinish(p)
    \/ \E t \in Threads :
         \/ MetricCall(t) \/ GetLoad(t) \/ GetRead(t) \/ MetricSkip(t)
         \/ MetricAllocate(t) \/ AllocateReturns(t) \/ MetricRecord(t)
         \/ RecordDirect(t)

Init == CellInit /\ PipeInit /\ budget = MaxCalls

Spec == Init /\ [][Next]_vars

(***************************************************************************)
(* FairSpec: the same program under the scheduling the threads get: every  *)
(* thread that can take a step eventually takes it.  Nothing forces the    *)
(* application to begin a metric! invocation, to call timestamp_secs_f64   *)
(* or to drop the handle.                                                  *)
(***************************************************************************)
InitLive == CellInit /\ PipeInit /\ budget = MaxLiveCalls

WorkerStep(p) ==
    \/ WorkerNew(p) \/ WorkerRegister(p) \/ WorkerTimestamp(p) \/ WorkerUpdate(p)
    \/ WorkerExit(p) \/ WorkerFinish(p)

OwnerStep(p) ==
    \/ NewFails(p) \/ NewInstalls(p) \/ NewReturns(p) \/ DropJoin(p)
    \/ SetCas(p) \/ SetWriteBegin(p) \/ SetWriteEnd(p) \/ SetStore(p)

ThreadStep(t) ==
    \/ GetLoad(t) \/ GetRead(t) \/ MetricSkip(t) \/ MetricAllocate(t)
    \/ AllocateReturns(t) \/ MetricRecord(t) \/ RecordDirect(t)

FairSpec ==
    /\ InitLive
    /\ [][Next]_vars
    /\ \A p \in Pipelines : WF_vars(WorkerStep(p)) /\ WF_vars(OwnerStep(p))
    /\ \A t \in Threads : WF_vars(ThreadStep(t))

(***************************************************************************)
(* SpecTwo: the application constructs every pipeline, in any order and    *)
(* concurrently with the call sites.                                       *)
(***************************************************************************)
InitTwo == CellInit /\ PipeStart(NumPipelines) /\ budget = MaxTwoCalls

SpecTwo == InitTwo /\ [][Next]_vars

(***************************************************************************)
(* SpecCell: the RecorderCell alone, driven by any callers.  Every         *)
(* installer calls set up to MaxSetCalls times, every thread calls get any *)
(* number of times, in any interleaving.                                   *)
(***************************************************************************)
\* set_recorder (lib.rs 37-42) called with a fresh recorder.
SetCall(i) ==
    /\ setPc[i] \in {"idle", "ret"}
    /\ setCalls[i] < MaxSetCalls
    /\ setCalls' = [setCalls EXCEPT ![i] = @ + 1]
    /\ setArg' = [setArg EXCEPT ![i] = Leaked(i, setCalls[i] + 1)]
    /\ setPc' = [setPc EXCEPT ![i] = "call"]
    /\ UNCHANGED <<state, recorder, setTrue, setFalse, getPc, getSaw, getRet>>
    /\ UNCHANGED pipeVars

\* RECORDER.get() called by some thread.
GetCall(t) ==
    /\ getPc[t] \in {"idle", "ret"}
    /\ getPc' = [getPc EXCEPT ![t] = "call"]
    /\ UNCHANGED <<state, recorder, setPc, setArg, setCalls, setTrue, setFalse, getSaw, getRet>>
    /\ UNCHANGED pipeVars

CellNext ==
    \/ \E i \in Installers :
         SetCall(i) \/ SetCas(i) \/ SetWriteBegin(i) \/ SetWriteEnd(i) \/ SetStore(i)
    \/ \E t \in Threads : GetCall(t) \/ GetLoad(t) \/ GetRead(t)

SpecCell == Init /\ [][CellNext]_vars

(***************************************************************************)
(* SpecDirect: one pipeline whose new has returned and installed its       *)
(* recorder, every thread holding that recorder, driven by direct calls of *)
(* the Recorder methods and of timestamp_secs_f64 with any arguments.      *)
(***************************************************************************)
\* The state when new has returned and the threads have got the recorder.
DirectStart ==
    /\ state = Installed
    /\ recorder = Leaked(1, 1)
    /\ setPc = [i \in Installers |-> IF i = 1 THEN "ret" ELSE "idle"]
    /\ setArg = [i \in Installers |-> IF i = 1 THEN Leaked(1, 1) ELSE None]
    /\ setCalls = [i \in Installers |-> IF i = 1 THEN 1 ELSE 0]
    /\ setTrue = <<Leaked(1, 1)>>
    /\ setFalse = 0
    /\ getPc = [t \in Threads |-> "ret"]
    /\ getSaw = [t \in Threads |-> Installed]
    /\ getRet = [t \in Threads |-> Leaked(1, 1)]
    /\ owner = [p \in Pipelines |-> IF p = 1 THEN "live" ELSE "unused"]
    /\ tsCount = [p \in Pipelines |-> 0]
    /\ start_chan = [p \in Pipelines |-> IF p = 1 THEN "ok" ELSE "empty"]
    /\ result = [p \in Pipelines |-> "none"]
    /\ queue = [p \in Pipelines |-> <<>>]
    /\ rxAlive = [p \in Pipelines |-> TRUE]
    /\ sentLog = [p \in Pipelines |-> <<>>]
    /\ sends = [x \in Producers |-> 0]
    /\ worker = [p \in Pipelines |-> IF p = 1 THEN "run" ELSE "unspawned"]
    /\ metrics = [p \in Pipelines |-> <<>>]
    /\ applied = [p \in Pipelines |-> <<>>]
    /\ ID = [s \in Sites |-> OnceUninit]
    /\ regSent = [s \in Sites |-> 0]
    /\ skips = [s \in Sites |-> 0]
    /\ pc = [t \in Threads |-> "idle"]
    /\ calls = [t \in Threads |-> 0]
    /\ site = [t \in Threads |-> 0]
    /\ reply = [t \in Threads |-> NoReply]

InitDirect ==
    /\ DirectStart
    /\ writer = [p \in Pipelines |-> NewWriter]
    /\ budget = MaxDirectCalls

DirectNext ==
    \/ \E t \in DirectCallers :
         AllocateDirect(t) \/ AllocateDirectReturns(t) \/ RecordAny(t)
    \/ \E p \in Pipelines :
         \/ TimestampAny(p) \/ DropSend(p) \/ DropJoin(p)
         \/ WorkerRegister(p) \/ WorkerTimestamp(p) \/ WorkerUpdate(p) \/ WorkerExit(p)
         \/ WorkerFinish(p)

SpecDirect == InitDirect /\ [][DirectNext]_vars

(***************************************************************************)
(* The tabular backend.  The repository's sources hold the waveform        *)
(* backend only; this part follows the behaviour the specification gives   *)
(* for the tabular one (4.1, 4.3, 4.4, 6 and the example of 8).            *)
(***************************************************************************)
\* Calls the application makes in SpecTabular, all together.
MaxTabCalls == 5

\* The metrics the application registers, in this order: a : Int32 and
\* b : Float64; the values it records; the times it passes to
\* set_current_time, in seconds.
TabKinds == <<"Int32", "Float64">>
TabValueInputs == {5, 7}
TabTimeInputs == {1, 2}

\* The backend's state: the current row's slots, the two flags, the time
\* cursor, and the lines written to the file.
NewTable ==
    [slots |-> <<>>, has_data |-> FALSE, header_written |-> FALSE, time |-> 0,
     out |-> <<>>]

\* The canonical text of a value and of a time.
text_of(v) == ToString(v)

\* The header line and a data line.
HeaderLine(ms) == <<"time">> \o [k \in 1..Len(ms) |-> ToString(ms[k].name)]
RowLine(time, slots) == <<text_of(time)>> \o slots

\* A flush writes when the row has data.
FlushWritesAlways(w) == TRUE
flush_writes(w) == w.has_data

\* The flush: the header when it has not been written, then one row.
table_flush(w, ms) ==
    [w EXCEPT !.header_written = TRUE,
              !.out = @ \o (IF w.header_written THEN <<>> ELSE <<HeaderLine(ms)>>)
                         \o <<RowLine(w.time, w.slots)>>]

\* set_current_time(seconds).
SetCurrentTime(p) ==
    /\ owner[p] = "live"
    /\ budget > 0
    /\ budget' = budget - 1
    /\ \E time \in TabTimeInputs :
          Send(p, HandleOwner(p), Timestamp(time, TimeTag(HandleOwner(p), time)))
    /\ tsCount' = [tsCount EXCEPT ![p] = @ + 1]
    /\ UNCHANGED <<owner, start_chan, result, workerVars, ID, regSent, skips, pc, calls,
                   site, reply, cellVars>>

\* The instrumentation call's registration, for the next metric of TabKinds.
TabAllocate(t) ==
    /\ pc[t] = "idle"
    /\ getRet[t] # None
    /\ budget > 0
    /\ Cardinality(PositionsOf(sentLog[Chan(t)], "Register")) < Len(TabKinds)
    /\ budget' = budget - 1
    /\ site' = [site EXCEPT ![t] = 0]
    /\ LET n == Cardinality(PositionsOf(sentLog[Chan(t)], "Register")) + 1
       IN  Send(Chan(t), t, Register(n, TabKinds[n], "V", t, Tag(t, 0)))
    /\ reply' = [reply EXCEPT ![t] = IF send_ok(Chan(t)) THEN ReplyOpen ELSE ReplyClosed]
    /\ pc' = [pc EXCEPT ![t] = "alloc"]
    /\ UNCHANGED <<handleVars, workerVars, ID, regSent, skips, calls, cellVars>>

\* The instrumentation call's Update, for either metric of TabKinds.
TabRecord(t) ==
    /\ pc[t] = "idle"
    /\ getRet[t] # None
    /\ budget > 0
    /\ budget' = budget - 1
    /\ site' = [site EXCEPT ![t] = 0]
    /\ \E id \in 0..(Len(TabKinds) - 1) : \E value \in TabValueInputs :
          Send(Chan(t), t,
               Update(id, record(MethodOf(TabKinds[id + 1]), value),
                      CallTag(t, MethodOf(TabKinds[id + 1]), value)))
    /\ calls' = [calls EXCEPT ![t] = @ + 1]
    /\ UNCHANGED <<handleVars, workerVars, ID, regSent, skips, pc, reply, cellVars>>

\* Register: the next identifier, an empty slot, the reply.
TabRegister(p) ==
    /\ Receivable(p)
    /\ Received(p).type = "Register"
    /\ queue' = Dequeued(p)
    /\ LET msg == Received(p)
           id == next_id(metrics[p])
       IN  /\ writer' = [writer EXCEPT ![p].slots = Append(@, "")]
           /\ metrics' = [metrics EXCEPT ![p] =
                  Append(@, [var |-> id + 1, kind |-> msg.kind, name |-> msg.name])]
           /\ reply' = [reply EXCEPT ![msg.reply] = ReplySent(id)]
           /\ applied' = [applied EXCEPT ![p] = Append(@, Outcome(msg, "ok", id))]
    /\ UNCHANGED <<owner, tsCount, start_chan, result, rxAlive, sentLog, sends, worker,
                   ID, regSent, budget, skips, pc, calls, site, cellVars>>

\* Timestamp: the flush, which may fail when it writes, then the time cursor
\* advances.
TabTimestamp(p) ==
    /\ Receivable(p)
    /\ Received(p).type = "Timestamp"
    /\ queue' = Dequeued(p)
    /\ LET msg == Received(p)
           w == writer[p]
       IN  \E ok \in {TRUE} \cup {~flush_writes(w)} :
             IF ok
               THEN /\ writer' = [writer EXCEPT ![p] =
                          [(IF flush_writes(w) THEN table_flush(w, metrics[p]) ELSE w)
                             EXCEPT !.time = msg.ts]]
                    /\ applied' = [applied EXCEPT ![p] = Append(@, Outcome(msg, "ok", -1))]
                    /\ UNCHANGED <<worker, result, metrics>>
               ELSE /\ RunFails(p)
                    /\ applied' = [applied EXCEPT ![p] = Append(@, Outcome(msg, "err", -1))]
    /\ UNCHANGED <<owner, tsCount, start_chan, rxAlive, sentLog, sends, siteVars, cellVars>>

\* Update: out of range, ignored; otherwise the slot takes the value's text
\* and the row has data.
TabUpdate(p) ==
    /\ Receivable(p)
    /\ Received(p).type = "Update"
    /\ queue' = Dequeued(p)
    /\ LET msg == Received(p)
       IN  IF ~in_range(metrics[p], msg.metric)
             THEN /\ applied' = [applied EXCEPT ![p] = Append(@, Outcome(msg, "ignored", -1))]
                  /\ UNCHANGED writer
             ELSE /\ writer' = [writer EXCEPT ![p].slots[msg.metric + 1] = text_of(msg.value.v),
                                              ![p].has_data = TRUE]
                  /\ applied' = [applied EXCEPT ![p] = Append(@, Outcome(msg, "ok", -1))]
    /\ UNCHANGED <<worker, result, metrics>>
    /\ UNCHANGED <<owner, tsCount, start_chan, rxAlive, sentLog, sends, siteVars, cellVars>>

\* Exit: the loop ends after the flush.
TabExit(p) ==
    /\ Receivable(p)
    /\ Received(p).type = "Exit"
    /\ queue' = Dequeued(p)
    /\ LET msg == Received(p)
           w == writer[p]
       IN  \E ok \in {TRUE} \cup {~flush_writes(w)} :
             IF ok
               THEN /\ writer' = [writer EXCEPT ![p] =
                          IF flush_writes(w) THEN table_flush(w, metrics[p]) ELSE w]
                    /\ worker' = [worker EXCEPT ![p] = "ret"]
                    /\ result' = [result EXCEPT ![p] = "Ok"]
                    /\ applied' = [applied EXCEPT ![p] = Append(@, Outcome(msg, "ok", -1))]
                    /\ UNCHANGED metrics
               ELSE /\ RunFails(p)
                    /\ applied' = [applied EXCEPT ![p] = Append(@, Outcome(msg, "err", -1))]
    /\ UNCHANGED <<owner, tsCount, start_chan, rxAlive, sentLog, sends, siteVars, cellVars>>

InitTabular ==
    /\ DirectStart
    /\ writer = [p \in Pipelines |-> NewTable]
    /\ budget = MaxTabCalls

TabularNext ==
    \/ \E t \in DirectCallers :
         TabAllocate(t) \/ AllocateDirectReturns(t) \/ TabRecord(t)
    \/ \E p \in Pipelines :
         \/ SetCurrentTime(p) \/ DropSend(p) \/ DropJoin(p)
         \/ TabRegister(p) \/ TabTimestamp(p) \/ TabUpdate(p) \/ TabExit(p)
         \/ WorkerFinish(p)

SpecTabular == InitTabular /\ [][TabularNext]_vars

(***************************************************************************)
(* Claims about the RecorderCell                                           *)
(***************************************************************************)
\* set calls that have returned, and set calls past a successful exchange.
SetReturned == Len(setTrue) + setFalse
SetWinners == {i \in Installers : setPc[i] \in {"won", "writing", "written"}}

\* C1: among any interleaving of set calls at most one returns true, every
\* call that returns after the exchange was won returns false, a call returns
\* false only when another call has won the exchange (so once all calls have
\* returned exactly one returned true), and the recorder stored by the
\* winning call stays in the slot, with the state Installed, for ever.
C1_ExactlyOneInstall ==
    /\ Len(setTrue) + Cardinality(SetWinners) <= 1
    /\ SetReturned > 0 => Len(setTrue) + Cardinality(SetWinners) = 1
    /\ (SetReturned > 0 /\ \A i \in Installers : setPc[i] \in {"idle", "ret"})
          => Len(setTrue) = 1 /\ setFalse = SetReturned - 1
    /\ Len(setTrue) = 1 => state = Installed /\ recorder = setTrue[1]
    /\ \A i \in Installers : setPc[i] = "written" => recorder = setArg[i]

\* C1 witness: a set call has returned true and, after it, other calls
\* (a concurrent one and a sequential one) have returned false.
C1_Witness ==
    /\ Len(setTrue) = 1
    /\ setFalse >= 2
    /\ \E i \in Installers : setCalls[i] = MaxSetCalls /\ setTrue[1].tx = i
    /\ recorder = setTrue[1]

\* C2: get returns None unless it loaded the state Installed; a get that is
\* about to read the slot finds the state Installed and the slot holding the
\* complete value written by the winning set, never an empty or half-written
\* slot; and every recorder get has returned is that value.
C2_GetSeesOnlyInstalled ==
    \A t \in Threads :
        /\ getPc[t] = "read" =>
              /\ state = Installed
              /\ recorder \notin {None, Torn}
              /\ Len(setTrue) = 1 /\ recorder = setTrue[1]
        /\ (getPc[t] = "ret" /\ getRet[t] # None) =>
              /\ state = Installed
              /\ Len(setTrue) = 1 /\ getRet[t] = setTrue[1]
        /\ (getPc[t] = "ret" /\ getSaw[t] # Installed) => getRet[t] = None

\* C2 witness: one get has returned None while a set was between its
\* exchange and its store (state Installing), another get has returned the
\* installed recorder.
C2_Witness ==
    /\ \E t \in Threads : getPc[t] = "ret" /\ getSaw[t] = Installing /\ getRet[t] = None
    /\ \E t \in Threads : getPc[t] = "ret" /\ getRet[t] # None /\ getRet[t] = recorder

(***************************************************************************)
(* Claims about the Worker, the command channel and the call sites         *)
(***************************************************************************)
\* Kinds of entries of the history of received commands.
IsRegistered(o) == o.cmd.type = "Register" /\ o.how = "ok"
IsIgnored(o) == o.cmd.type = "Update" /\ o.how = "ignored"
IsEmitted(o) == o.cmd.type \in {"Timestamp", "Update"} /\ o.how = "ok"
Registered(p) == SelectSeq(applied[p], IsRegistered)

\* C3: the k-th Register a Worker processes successfully (k from 0) is
\* replied the identifier k, whatever Timestamp and Update commands (in or out
\* of range) are processed in between: the identifiers replied are 0..N-1 in
\* processing order, and N is the number of metrics.
C3_DenseIdentifiers ==
    \A p \in Pipelines :
        /\ \A k \in 1..Len(Registered(p)) : Registered(p)[k].id = k - 1
        /\ Len(Registered(p)) = Len(metrics[p])
        /\ \A t \in Threads :
              (reply[t].st = "sent" /\ Chan(t) = p) => reply[t].v < Len(metrics[p])

\* C3 witness: two Registers were replied 0 and 1, with a Timestamp and an
\* out-of-range Update processed between them and an in-range Update after.
C3_Witness ==
    \E p \in Pipelines :
        LET app == applied[p] IN
        /\ Len(Registered(p)) = 2
        /\ \E i, j, k, l \in 1..Len(app) :
              /\ i < j /\ j < l /\ i < k /\ k < l
              /\ IsRegistered(app[i]) /\ app[i].id = 0
              /\ app[j].cmd.type = "Timestamp"
              /\ IsIgnored(app[k])
              /\ IsRegistered(app[l]) /\ app[l].id = 1

\* Commands of a type sent from call site s, over all channels.
SentFrom(p, s, type) ==
    {k \in 1..Len(sentLog[p]) : sentLog[p][k].type = type /\ sentLog[p][k].tag.site = s}

\* C4: a call site sends at most one Register over its whole life, however
\* many times and by however many threads it is executed; every Update it
\* sends carries the identifier cached in its ID, which is the identifier
\* replied to that Register (or the sentinel when none was replied); and the
\* cached identifier, once set, never changes.
C4_RegisterOnce ==
    /\ [](\A s \in Sites :
            /\ regSent[s] <= 1
            /\ \A p \in Pipelines :
                 /\ Cardinality(SentFrom(p, s, "Register")) <= regSent[s]
                 /\ \A k \in SentFrom(p, s, "Update") :
                      ID[s].st = "done" /\ sentLog[p][k].metric = ID[s].v
                 /\ \A k \in 1..Len(applied[p]) :
                      (IsRegistered(applied[p][k]) /\ applied[p][k].cmd.tag.site = s
                         /\ ID[s].st = "done") => ID[s].v = applied[p][k].id
            /\ (ID[s].st = "done" /\ ID[s].v # MetricId_MAX) =>
                 \E p \in Pipelines : \E k \in 1..Len(applied[p]) :
                    IsRegistered(applied[p][k]) /\ applied[p][k].cmd.tag.site = s)
    /\ [][\A s \in Sites : ID[s].st = "done" => ID'[s] = ID[s]]_vars

\* C4 witness: one site, registered once, has been executed by two threads,
\* each of which sent an Update with the one identifier the site was replied.
C4_Witness ==
    \E s \in Sites : \E p \in Pipelines :
        /\ regSent[s] = 1
        /\ ID[s].st = "done" /\ ID[s].v # MetricId_MAX
        /\ Cardinality(SentFrom(p, s, "Update")) >= 2
        /\ Cardinality({sentLog[p][k].tag.by : k \in SentFrom(p, s, "Update")}) = 2

\* C5: as long as no recorder is installed no thread has sent any command
\* (no channel has accepted a Register or an Update) and every site's ID is
\* unresolved; an execution that found no recorder
\* leaves the ID as it was; and a thread that did get the recorder and finds
\* the ID unresolved can register.
C5_NoRecorderNoEffect ==
    /\ state # Installed =>
          /\ \A p \in Pipelines : \A k \in 1..Len(sentLog[p]) :
                sentLog[p][k].type \notin {"Register", "Update"}
          /\ \A t \in Threads : sends[t] = 0
          /\ \A s \in Sites : ID[s] = OnceUninit /\ regSent[s] = 0
    /\ \A s \in Sites : ID[s].st # "uninit" => regSent[s] = 1
    /\ \A t \in Threads :
          (Got(t) /\ site[t] \in Sites /\ getRet[t] # None /\ ID[site[t]].st = "uninit")
             => ENABLED MetricAllocate(t)

\* C5 witness: a site was executed with no recorder installed, and after the
\* installation it registered once and was replied an identifier.
C5_Witness ==
    \E s \in Sites :
        /\ skips[s] >= 1
        /\ regSent[s] = 1
        /\ ID[s].st = "done" /\ ID[s].v # MetricId_MAX

\* The records the Worker emits for a history of received commands.
RECURSIVE RecordsOf(_, _)
RecordsOf(app, ms) ==
    IF app = <<>> THEN <<>>
    ELSE LET o == Head(app)
             rec == IF ~IsEmitted(o) THEN <<>>
                    ELSE IF o.cmd.type = "Timestamp" THEN <<TimeChange(o.cmd.ts)>>
                    ELSE LET m == ms[o.cmd.metric + 1]
                             enc == metric_value(m.kind, o.cmd.value)
                         IN  <<ValueChange(m.var, SubSeq(enc.buf, 1, enc.len))>>
         IN  rec \o RecordsOf(Tail(app), ms)

\* Metrics registered when the k-th received command was processed.
RegisteredBefore(p, k) == Len(SelectSeq(SubSeq(applied[p], 1, k - 1), IsRegistered))

\* C6: the Worker receives the commands in the order the channel accepted
\* them (the commands received are a prefix of the commands sent, so none is
\* reordered, merged or duplicated), two commands of one producer are queued
\* in the order the producer sent them, an Update is ignored exactly when its
\* identifier is out of range at the time it is received, and the records
\* emitted are those of the Timestamp and in-range Update commands in the
\* order received.
C6_FifoOrder ==
    \A p \in Pipelines :
        /\ Len(applied[p]) <= Len(sentLog[p])
        /\ \A k \in 1..Len(applied[p]) : applied[p][k].cmd = sentLog[p][k]
        /\ \A i, j \in 1..Len(sentLog[p]) :
              (i < j /\ sentLog[p][i].tag.by = sentLog[p][j].tag.by)
                 => sentLog[p][i].tag.n < sentLog[p][j].tag.n
        /\ \A k \in 1..Len(applied[p]) :
              applied[p][k].cmd.type = "Update" =>
                 (applied[p][k].how = "ignored"
                    <=> applied[p][k].cmd.metric >= RegisteredBefore(p, k))
        /\ writer[p].log = RecordsOf(applied[p], metrics[p])

\* C6 witness: the Worker has emitted a value change, a time change and a
\* second value change, from commands of two producers, and an ignored
\* Update lies between them.
C6_Witness ==
    \E p \in Pipelines :
        /\ Len(writer[p].log) >= 3
        /\ \E k \in 1..Len(applied[p]) : IsIgnored(applied[p][k])
        /\ Cardinality({writer[p].log[k].rec : k \in 1..Len(writer[p].log)}) = 2
        /\ Cardinality({applied[p][k].cmd.tag.by : k \in 1..Len(applied[p])}) >= 3

\* The Worker's loop has ended.
LoopEnded(p) == worker[p] \in {"ret", "done"} /\ result[p] # "none" /\ applied[p] # <<>>

\* C7 as claimed: once the loop has ended every command sent before Exit has
\* been received by the Worker, and no command sent after Exit is ever
\* received.
C7_AllBeforeExitApplied ==
    \A p \in Pipelines :
        \A e \in PositionsOf(sentLog[p], "Exit") :
            /\ LoopEnded(p) => Len(applied[p]) >= e - 1
            /\ Len(applied[p]) <= e

\* C7 as amended: a loop that ended by receiving Exit has received every
\* command sent before Exit, each without a backend error; no command sent
\* after Exit is ever received, Exit ends the loop at once; and a loop that a
\* backend error ended stopped at the failing command, whatever was queued
\* behind it, Exit or not.
C7_ExitIsLast ==
    \A p \in Pipelines :
        /\ \A e \in PositionsOf(sentLog[p], "Exit") :
              /\ Len(applied[p]) <= e
              /\ Len(applied[p]) = e =>
                    /\ LoopEnded(p) /\ result[p] = "Ok"
                    /\ \A k \in 1..(e - 1) : applied[p][k].how # "err"
              /\ (LoopEnded(p) /\ result[p] = "Ok") => Len(applied[p]) = e
        /\ \A k \in 1..Len(applied[p]) :
              applied[p][k].how = "err" =>
                 k = Len(applied[p]) /\ LoopEnded(p) /\ result[p] = "Err"
        /\ (LoopEnded(p) /\ result[p] = "Err") =>
              applied[p][Len(applied[p])].how = "err"

\* C7 witness: the loop ended by Exit after receiving two commands sent
\* before it, and a command sent after Exit was left unreceived.
C7_Witness ==
    \E p \in Pipelines : \E e \in PositionsOf(sentLog[p], "Exit") :
        /\ worker[p] = "done" /\ result[p] = "Ok"
        /\ e >= 3 /\ Len(applied[p]) = e
        /\ Len(sentLog[p]) > e

\* C9 as claimed: when drop has returned the backend has been flushed.
C9_FlushedAtJoin ==
    \A p \in Pipelines : owner[p] = "dropped" => writer[p].flushed

\* C8: a drop that has sent Exit returns: the Worker finishes and the join
\* ends, whatever is queued, whoever is still sending or waiting for a reply,
\* and also when a backend error has already ended the Worker.
C8_DropTerminates ==
    \A p \in Pipelines : (owner[p] = "join") ~> (owner[p] = "dropped")

\* C8 witness: a drop has returned although, when the Worker ended, a command
\* was still queued behind Exit and the Worker had stopped on a backend error.
C8_Witness ==
    \E p \in Pipelines :
        /\ owner[p] = "dropped"
        /\ result[p] = "Err"
        /\ Len(sentLog[p]) > Len(applied[p]) + 1

\* C10: every metric! invocation returns: a thread inside one (loading the
\* recorder, registering, waiting for the reply or for another thread's
\* registration, recording) is eventually outside it again.
C10_CallsReturn ==
    \A t \in Threads : (pc[t] # "idle") ~> (pc[t] = "idle")

\* C10 witness: a Register was sent after the Worker's loop had ended and
\* before cmd_rx was dropped, was never received, and the call site ended up
\* with the sentinel.
C10_Witness ==
    \E p \in Pipelines : \E s \in Sites :
        /\ worker[p] = "done"
        /\ \E k \in SentFrom(p, s, "Register") : k > Len(applied[p])
        /\ ID[s] = OnceDone(MetricId_MAX)

(***************************************************************************)
(* Claims about failures                                                   *)
(***************************************************************************)
\* Commands producer x sent that the channel of pipeline p accepted.
AcceptedFrom(p, x) == {k \in 1..Len(sentLog[p]) : sentLog[p][k].tag.by = x}

\* C11: an allocate whose reply channel is closed with nothing sent returns
\* the sentinel, which the site caches; a site holds the sentinel only when
\* the Worker of the installed recorder has left its loop and never
\* registered the site; no Update carrying the sentinel is ever received by a
\* Worker; and after a Worker has left its loop, and after its channel is
\* disconnected, no call changes its metrics, its writer or what it has
\* received, and a disconnected channel accepts nothing.
C11_SentinelNoOp ==
    /\ [](/\ \A s \in Sites :
               ID[s] = OnceDone(MetricId_MAX) =>
                  /\ state = Installed
                  /\ worker[recorder.tx] \in {"ret", "done"}
                  /\ \A p \in Pipelines : \A k \in 1..Len(applied[p]) :
                        ~(IsRegistered(applied[p][k]) /\ applied[p][k].cmd.tag.site = s)
           /\ \A p \in Pipelines : \A k \in 1..Len(applied[p]) :
                 applied[p][k].cmd.type = "Update" =>
                    applied[p][k].cmd.metric # MetricId_MAX)
    /\ [][\A t \in Threads :
            (pc[t] = "wait" /\ reply[t].st = "closed" /\ pc'[t] = "record")
               => ID'[site[t]] = OnceDone(MetricId_MAX)]_vars
    /\ [][\A p \in Pipelines :
            /\ worker[p] \in {"ret", "done"} =>
                  UNCHANGED <<metrics[p], writer[p], applied[p]>>
            /\ ~rxAlive[p] =>
                  UNCHANGED <<queue[p], sentLog[p], metrics[p], writer[p], applied[p]>>]_vars

\* C11 witness: a site cached the sentinel, a later execution of it sent an
\* Update carrying the sentinel that was never received, and a record call
\* was made after the channel was disconnected.
C11_Witness ==
    \E s \in Sites : \E p \in Pipelines : \E t \in Threads :
        /\ ID[s] = OnceDone(MetricId_MAX)
        /\ \E k \in SentFrom(p, s, "Update") :
              sentLog[p][k].metric = MetricId_MAX /\ k > Len(applied[p])
        /\ ~rxAlive[p]
        /\ pc[t] = "idle"
        /\ sends[t] > Cardinality(AcceptedFrom(p, t))

\* Value-change records in a writer's log.
ValueChanges(log) == {k \in 1..Len(log) : log[k].rec = "value_change"}

\* C12: the Worker ignores an Update exactly when its identifier is not
\* smaller than the number of metrics registered so far, the sentinel
\* included; the step that ignores it changes neither the metric list nor the
\* writer (no record, no variable) nor the thread's result, and leaves the
\* Worker in its loop; and the commands behind it are received in order, so
\* that the metrics are those of the successful Registers and the value
\* changes those of the Updates that were not ignored.
C12_IgnoredUpdate ==
    /\ [](\A p \in Pipelines :
            /\ \A k \in 1..Len(applied[p]) :
                  applied[p][k].cmd.type = "Update" =>
                     /\ applied[p][k].how = "ignored"
                           <=> applied[p][k].cmd.metric >= RegisteredBefore(p, k)
                     /\ (IsIgnored(applied[p][k]) /\ k = Len(applied[p]))
                           => worker[p] = "run" /\ result[p] = "none"
                     /\ applied[p][k].cmd = sentLog[p][k]
            /\ Len(metrics[p]) = Len(Registered(p))
            /\ Cardinality(ValueChanges(writer[p].log))
                  = Cardinality({k \in 1..Len(applied[p]) :
                                   applied[p][k].cmd.type = "Update"
                                      /\ applied[p][k].how = "ok"}))
    /\ [][\A p \in Pipelines :
            (/\ Receivable(p)
             /\ Received(p).type = "Update"
             /\ Received(p).metric >= Len(metrics[p])
             /\ applied'[p] # applied[p])
               => /\ UNCHANGED <<metrics[p], writer[p], worker[p], result[p]>>
                  /\ queue'[p] = Tail(queue[p])
                  /\ IsIgnored(applied'[p][Len(applied'[p])])]_vars

\* C12 witness: with one metric registered, an Update carrying the sentinel
\* was ignored and the Update behind it, for the metric, emitted its record.
C12_Witness ==
    \E p \in Pipelines :
        LET app == applied[p] IN
        /\ Len(app) >= 3
        /\ IsRegistered(app[1])
        /\ IsIgnored(app[2]) /\ app[2].cmd.metric = MetricId_MAX
        /\ app[3].cmd.type = "Update" /\ app[3].how = "ok"
        /\ Cardinality(ValueChanges(writer[p].log)) = 1
        /\ Len(metrics[p]) = 1

\* C13 as claimed: a backend error ends the loop at the failing command,
\* nothing is received after it, the error is the result of the Worker
\* thread, and the owner that has dropped the handle can tell it from a
\* Worker that ended without error.
C13_FailureObservable ==
    \A p \in Pipelines :
        /\ \A k \in 1..Len(applied[p]) :
              applied[p][k].how = "err" =>
                 /\ k = Len(applied[p])
                 /\ worker[p] \in {"ret", "done"}
                 /\ result[p] = "Err"
        /\ (owner[p] = drop_returns(result[p]) /\ result[p] = "Err")
              => drop_returns("Err") # drop_returns("Ok")

(***************************************************************************)
(* Claims about several pipelines                                          *)
(***************************************************************************)
\* Pipelines whose new has returned a handle.
Returned(p) == owner[p] \in {"live", "join", "dropped"}

\* C14: new is past its wait only when the Worker has reported the outcome
\* of the open.  When the open failed new returns the error without calling
\* set_recorder, the recorder of that pipeline is never installed, and its
\* Worker thread has ended having received nothing.  When it succeeded new
\* calls set_recorder exactly once and returns a handle after that call has
\* returned; a call that finds a recorder installed (or being installed)
\* changes neither the state nor the slot; and of the pipelines that opened
\* at most one is the installed one.
C14_NewReportsOpen ==
    /\ [](\A p \in Pipelines :
            /\ owner[p] \in {"install", "live", "join", "dropped"} =>
                  /\ start_chan[p] = "ok"
                  /\ setCalls[p] = 1
            /\ Returned(p) => setPc[p] = "ret"
            /\ owner[p] \in {"start", "wait_start", "failed", "unused"} => setCalls[p] = 0
            /\ owner[p] = "failed" => start_chan[p] = "err"
            /\ start_chan[p] = "err" =>
                  /\ worker[p] = "done" /\ result[p] = "Ok"
                  /\ applied[p] = <<>> /\ queue[p] = <<>> /\ sentLog[p] = <<>>
                  /\ writer[p] = NewWriter
                  /\ recorder.tx # p
                  /\ \A k \in 1..Len(setTrue) : setTrue[k].tx # p
            /\ (Returned(p) /\ \A k \in 1..Len(setTrue) : setTrue[k].tx # p) =>
                  /\ Len(setTrue) + Cardinality(SetWinners) = 1
                  /\ setFalse >= 1)
    /\ [][\A p \in Pipelines :
            (owner[p] = "install" /\ setPc[p] = "call" /\ setPc'[p] # "call"
                /\ state # Uninitialized)
               => /\ UNCHANGED <<state, recorder, setTrue>>
                  /\ setPc'[p] = "ret"
                  /\ setFalse' = setFalse + 1]_vars

\* C14 witness: two pipelines opened and both calls of new returned a
\* handle; one installed its recorder, the other's set_recorder did nothing.
C14_Witness ==
    \E p, q \in Pipelines :
        /\ p # q
        /\ Returned(p) /\ Returned(q)
        /\ Len(setTrue) = 1 /\ setTrue[1].tx = p /\ recorder = setTrue[1]
        /\ setFalse = 1 /\ setCalls[q] = 1

(***************************************************************************)
(* Claims about values                                                     *)
(***************************************************************************)
\* Update commands sent by a direct call of a record_* method.
DirectUpdates(p) ==
    {k \in 1..Len(sentLog[p]) :
        sentLog[p][k].type = "Update" /\ "method" \in DOMAIN sentLog[p][k].tag}

\* The value of the method's kind that an argument denotes: for the signed
\* kinds the argument's bit pattern read as a signed integer of the kind's
\* width.
KindSigned(m) == m \in {"i8", "i16", "i32", "i64"}
KindValue(m, arg) ==
    IF KindSigned(m) THEN from_le_bytes_signed(to_le_bytes(arg, ParamBytes(m))) ELSE arg

\* C15 as claimed: every integer record_* method forwards, as Int64 for the
\* signed kinds and as Uint64 for the unsigned ones, the very number it was
\* given, negative numbers included.
C15_WideningPreserves ==
    \A p \in Pipelines : \A k \in DirectUpdates(p) :
        LET cmd == sentLog[p][k]
            m == cmd.tag.method
        IN  m \notin {"f32", "f64"} =>
               /\ cmd.value.tag = (IF KindSigned(m) THEN "Int64" ELSE "Uint64")
               /\ cmd.value.v = KindValue(m, cmd.tag.arg)

(***************************************************************************)
(* Claims about the tabular backend                                        *)
(***************************************************************************)
MaxOf(S) == CHOOSE x \in S : \A y \in S : y <= x
MinOf(S) == CHOOSE x \in S : \A y \in S : x <= y

\* Entries of the history of received commands: an Update that reached its
\* slot, and a command that flushed.
IsUpdated(o) == o.cmd.type = "Update" /\ o.how = "ok"
IsFlushed(o) == o.cmd.type \in {"Timestamp", "Exit"} /\ o.how = "ok"

\* The flushes that came after the first Update.
DataFlushes(app) ==
    {j \in 1..Len(app) : IsFlushed(app[j]) /\ \E i \in 1..(j - 1) : IsUpdated(app[i])}

\* The time of the last Timestamp before the j-th command, and the text of
\* the last Update of a metric before it.
TimeBefore(app, j) ==
    LET T == {i \in 1..(j - 1) : app[i].cmd.type = "Timestamp" /\ app[i].how = "ok"}
    IN  IF T = {} THEN 0 ELSE app[MaxOf(T)].cmd.ts
LastText(app, j, id) ==
    LET U == {i \in 1..(j - 1) : IsUpdated(app[i]) /\ app[i].cmd.metric = id}
    IN  IF U = {} THEN "" ELSE ToString(app[MaxOf(U)].cmd.value.v)

\* The names registered before the j-th command, in registration order.
NamesBefore(app, j) ==
    LET regs == SelectSeq(SubSeq(app, 1, j - 1), IsRegistered)
    IN  [k \in 1..Len(regs) |-> ToString(regs[k].cmd.name)]

\* C16: the file is empty until a flush comes after the first Update (a
\* Timestamp before it writes neither header nor row); from then on the file
\* is the header, written once, as the first line, followed by one row per
\* flush, and the row of a flush holds the time current at the flush followed
\* by, for each metric registered by then in registration order, the text of
\* its most recent Update, or nothing if it had none.
C16_TabularRows ==
    \A p \in Pipelines :
        LET app == applied[p]
            out == writer[p].out
            F == DataFlushes(app)
        IN  /\ Len(out) = (IF F = {} THEN 0 ELSE Cardinality(F) + 1)
            /\ writer[p].header_written <=> F # {}
            /\ F # {} => out[1] = <<"time">> \o NamesBefore(app, MinOf(F))
            /\ \A j \in F :
                  out[1 + Cardinality({i \in F : i <= j})]
                     = <<ToString(TimeBefore(app, j))>>
                          \o [k \in 1..RegisteredBefore(p, j) |-> LastText(app, j, k - 1)]

\* C16 witness: a Timestamp came before the first Update and wrote nothing;
\* then, with two metrics registered and one of them updated once, two
\* flushes wrote two rows for different times, both carrying that value and
\* an empty field for the other metric.
C16_Witness ==
    \E p \in Pipelines :
        LET app == applied[p]
            out == writer[p].out
        IN  /\ Len(app) >= 2 /\ IsFlushed(app[1])
            /\ Cardinality({i \in 1..Len(app) : IsUpdated(app[i])}) = 1
            /\ Len(out) = 3
            /\ out[1] = <<"time", "1", "2">>
            /\ Len(out[2]) = 3 /\ Len(out[3]) = 3
            /\ out[2][1] # out[3][1]
            /\ out[2][2] # "" /\ out[3][2] = out[2][2]
            /\ out[2][3] = "" /\ out[3][3] = ""

(***************************************************************************)
(* Claims about the waveform records                                       *)
(***************************************************************************)
\* The payload the Worker emits for a value recorded into a metric of a kind.
Payload(kind, value) ==
    LET enc == metric_value(kind, value) IN SubSeq(enc.buf, 1, enc.len)

\* The Updates a Worker applied and the value changes it emitted, in order.
AppliedUpdates(p) == SelectSeq(applied[p], IsUpdated)
IsValueChange(r) == r.rec = "value_change"
EmittedValues(p) == SelectSeq(writer[p].log, IsValueChange)

\* C17 as claimed: for an Update sent by the record method of the metric's
\* own kind, the value change emitted has as many payload bytes as the width
\* declared for the kind at registration, and its payload is that of no
\* other value of the kind.
C17_PayloadEncodesValue ==
    \A p \in Pipelines :
        /\ Len(EmittedValues(p)) = Len(AppliedUpdates(p))
        /\ \A r \in 1..Len(AppliedUpdates(p)) :
              LET cmd == AppliedUpdates(p)[r].cmd
                  kind == metrics[p][cmd.metric + 1].kind
                  bytes == EmittedValues(p)[r].bytes
              IN  ("method" \in DOMAIN cmd.tag /\ cmd.tag.method = MethodOf(kind)) =>
                     /\ Len(bytes) = metric_size(kind)
                     /\ \A other \in ValueInputs(MethodOf(kind)) :
                           other # cmd.tag.arg
                              => Payload(kind, record(MethodOf(kind), other)) # bytes

\* The Timestamps a Worker applied and the time changes it emitted, in order.
IsTimestamped(o) == o.cmd.type = "Timestamp" /\ o.how = "ok"
AppliedTimestamps(p) == SelectSeq(applied[p], IsTimestamped)
IsTimeChange(r) == r.rec = "time_change"
EmittedTimes(p) == SelectSeq(writer[p].log, IsTimeChange)

\* C18 as claimed: whatever times are passed to timestamp_secs_f64, no time
\* change is emitted at a smaller tick than the one before it.
C18_TicksNonDecreasing ==
    \A p \in Pipelines :
        \A i, j \in 1..Len(EmittedTimes(p)) :
            i < j => EmittedTimes(p)[i].ts <= EmittedTimes(p)[j].ts

\* C18 as amended: the time changes are emitted in the order of the calls,
\* each at the tick its call computed, which is never negative; and of two
\* calls the later has the greater or equal tick whenever it was passed the
\* greater or equal time.
C18_TicksFollowTimes ==
    \A p \in Pipelines :
        LET T == AppliedTimestamps(p)
            E == EmittedTimes(p)
        IN  /\ Len(E) = Len(T)
            /\ \A r \in 1..Len(T) : E[r].ts = T[r].cmd.ts /\ E[r].ts >= 0
            /\ \A i, j \in 1..Len(T) :
                  i < j =>
                     /\ T[i].cmd.tag.n < T[j].cmd.tag.n
                     /\ ("time" \in DOMAIN T[i].cmd.tag /\ "time" \in DOMAIN T[j].cmd.tag
                           /\ T[i].cmd.tag.time <= T[j].cmd.tag.time)
                          => E[i].ts <= E[j].ts

\* C18 witness: two calls, the second with the greater time, have had their
\* time changes emitted, the second at the greater tick.
C18_Witness ==
    \E p \in Pipelines :
        LET T == AppliedTimestamps(p)
            E == EmittedTimes(p)
        IN  /\ Len(E) = 2 /\ Len(T) = 2
            /\ T[1].cmd.tag.time < T[2].cmd.tag.time
            /\ E[1].ts < E[2].ts

(***************************************************************************)
(* Claims about the identifiers the call sites hold                        *)
(***************************************************************************)
\* The sites that hold an identifier a Worker assigned.
Resolved(s) == ID[s].st = "done" /\ ID[s].v # MetricId_MAX

\* The successful Registers of site s in the history of pipeline p.
RegisteredFrom(p, s) ==
    {k \in 1..Len(applied[p]) :
        IsRegistered(applied[p][k]) /\ applied[p][k].cmd.tag.site = s}

\* C19: a site that holds an identifier was registered by exactly one
\* Worker, whose metric at that index has the site's kind and whose variable
\* for it has the site's name; two sites never hold the same identifier of
\* one Worker; a metric, once in the list, is never changed; and every
\* Update of a site that a Worker applied went to a metric of the site's
\* kind and was encoded for that kind.
C19_SiteOwnsItsIdentifier ==
    /\ [](/\ \A s \in Sites :
               Resolved(s) =>
                  /\ \E p \in Pipelines : RegisteredFrom(p, s) # {}
                  /\ \A p \in Pipelines :
                        RegisteredFrom(p, s) # {} =>
                           /\ Cardinality(RegisteredFrom(p, s)) = 1
                           /\ ID[s].v < Len(metrics[p])
                           /\ metrics[p][ID[s].v + 1].kind = SiteKind(s)
                           /\ writer[p].vars[metrics[p][ID[s].v + 1].var].name = SiteName(s)
                           /\ \A s2 \in Sites \ {s} :
                                 (Resolved(s2) /\ RegisteredFrom(p, s2) # {})
                                    => ID[s2].v # ID[s].v
           /\ \A p \in Pipelines :
                 /\ Len(EmittedValues(p)) = Len(AppliedUpdates(p))
                 /\ \A r \in 1..Len(AppliedUpdates(p)) :
                       LET cmd == AppliedUpdates(p)[r].cmd IN
                       cmd.tag.site \in Sites =>
                          /\ metrics[p][cmd.metric + 1].kind = SiteKind(cmd.tag.site)
                          /\ EmittedValues(p)[r].bytes
                                = Payload(SiteKind(cmd.tag.site), cmd.value)
                          /\ EmittedValues(p)[r].var = metrics[p][cmd.metric + 1].var)
    /\ [][\A p \in Pipelines : \A i \in 1..Len(metrics[p]) :
            Len(metrics'[p]) >= i /\ metrics'[p][i] = metrics[p][i]]_vars

\* C19 witness: two sites of different kinds were registered by two threads
\* whose Registers were both queued before the Worker replied to either, they
\* hold different identifiers, and an Update of the site registered second
\* has been applied.
C19_Witness ==
    \E p \in Pipelines : \E s1, s2 \in Sites :
        /\ s1 # s2 /\ SiteKind(s1) # SiteKind(s2)
        /\ Resolved(s1) /\ Resolved(s2)
        /\ ID[s1].v = 0 /\ ID[s2].v = 1
        /\ \E j \in SentFrom(p, s2, "Register") : \E k \in SentFrom(p, s1, "Update") :
              /\ j < k
              /\ sentLog[p][j].tag.by # sentLog[p][k].tag.by
              /\ \A i \in SentFrom(p, s1, "Register") : i < j
              /\ \A i \in SentFrom(p, s1, "Update") \cup SentFrom(p, s2, "Update") : j < i
        /\ \E r \in 1..Len(AppliedUpdates(p)) : AppliedUpdates(p)[r].cmd.tag.site = s2

(***************************************************************************)
(* Claims about a second pipeline                                          *)
(***************************************************************************)
\* Register and Update are the commands the instrumentation sends; Timestamp
\* and Exit come from the handle.
IsInstrumentation(cmd) == cmd.type \in {"Register", "Update"}
InstrumentationSent(q) ==
    {k \in 1..Len(sentLog[q]) : IsInstrumentation(sentLog[q][k])}
InstrumentationReceived(q) ==
    {k \in 1..Len(applied[q]) : IsInstrumentation(applied[q][k].cmd)}
\* The pipeline whose recorder the first successful set installed.
IsFirstInstalled(p) == Len(setTrue) >= 1 /\ setTrue[1].tx = p

\* C20: only one set ever succeeds; a pipeline other than the one it
\* installed is sent nothing but Timestamp and Exit, by its own handle, and
\* its Worker receives no Register and no Update; every recorder a thread
\* obtained from RECORDER.get() is the first one installed, so every Register
\* and Update is in the installed pipeline's channel; and once the installed
\* pipeline's Worker has left its loop no Worker receives a Register or an
\* Update any more, and once it has ended no channel accepts one.
C20_SecondPipelineUnused ==
    /\ [](/\ Len(setTrue) <= 1
           /\ \A q \in Pipelines :
                 ~IsFirstInstalled(q) =>
                    /\ InstrumentationSent(q) = {}
                    /\ InstrumentationReceived(q) = {}
                    /\ \A k \in 1..Len(sentLog[q]) :
                          /\ sentLog[q][k].type \in {"Timestamp", "Exit"}
                          /\ sentLog[q][k].tag.by = HandleOwner(q)
           /\ \A t \in Threads :
                 (pc[t] # "idle" /\ getPc[t] = "ret" /\ getRet[t] # None) =>
                    /\ Len(setTrue) = 1 /\ getRet[t] = setTrue[1]
                    /\ IsFirstInstalled(Chan(t)))
    /\ [][\A p \in Pipelines :
            (IsFirstInstalled(p) /\ worker[p] \in {"ret", "done"}) =>
               \A q \in Pipelines :
                  /\ InstrumentationReceived(q)' = InstrumentationReceived(q)
                  /\ worker[p] = "done" => InstrumentationSent(q)' = InstrumentationSent(q)]_vars

\* C20 witness: the installed pipeline's Worker has ended after its handle
\* was dropped, having been sent no Register; a call site then ran, found
\* the installed recorder and was left with the sentinel; the other pipeline
\* opened, its set_recorder failed, and its Worker is still running and has
\* received a Timestamp.
C20_Witness ==
    \E p, q \in Pipelines : \E s \in Sites :
        /\ p # q
        /\ IsFirstInstalled(p) /\ worker[p] = "done" /\ owner[p] = "dropped"
        /\ setCalls[q] = 1 /\ setFalse = 1
        /\ owner[q] = "live" /\ worker[q] = "run"
        /\ \E k \in 1..Len(applied[q]) :
              applied[q][k].cmd.type = "Timestamp" /\ applied[q][k].how = "ok"
        /\ ID[s] = OnceDone(MetricId_MAX)
        /\ InstrumentationSent(p) = {}
        /\ \A t \in Threads : pc[t] = "idle"

====
